---- MODULE Spec2Model ----
(***************************************************************************)
(* LLMService (src/services/llm/llm_service.rs): analyze_document fetches  *)
(* a document's text, extracts a knowledge graph from it (model call or    *)
(* fixed mock), and replaces the document's graph rows inside one          *)
(* PostgreSQL transaction.                                                 *)
(*                                                                         *)
(* The tables are modelled as PostgreSQL keeps them: every row version     *)
(* carries the transaction that wrote it (xmin) and the one that deleted   *)
(* it (xmax, 0 for none); what a reader sees is decided by the status of   *)
(* those transactions.  pool.begin() opens a transaction at the server's   *)
(* default isolation level, READ COMMITTED: each statement sees the rows   *)
(* committed when it starts, and a DELETE that meets a row locked by an    *)
(* unfinished transaction waits for it and then re-checks that row only.   *)
(***************************************************************************)
EXTENDS Integers, Sequences, FiniteSets, TLC

\* ------------------------------------------------------------------ bounds
MaxCalls == 2          \* analyze_document invocations in one behaviour

\* The tasks that run analyze_document; a request goes to the first free one.
Workers == {1, 2}

\* ------------------------------------------------------- documents table
\* Rows of the documents table (read only here): d1 has OCR text and stored
\* content, d2 only stored content, d3 neither; d4 is the id of no row.
None == "<none>"
DocIds == {"d1", "d2", "d3", "d4"}
Documents ==
    [d \in {"d1", "d2", "d3"} |->
        CASE d = "d1" -> [ocr_text |-> "ocr one", content |-> "raw one"]
          [] d = "d2" -> [ocr_text |-> None,      content |-> "raw two"]
          [] d = "d3" -> [ocr_text |-> None,      content |-> None]]

\* Faulty variant of OptionOr: the second value is preferred.
OptionOrSecond(a, b) == IF b # None THEN b ELSE a

\* Option::or
OptionOr(a, b) == IF a # None THEN a ELSE b

\* ------------------------------------------------------------ graph types
PersonA  == [label |-> "Person",  name |-> "a", properties |-> "{role}"]
CompanyB == [label |-> "Company", name |-> "b", properties |-> "{industry}"]
CompanyA == [label |-> "Company", name |-> "a", properties |-> "{}"]
EdgeAB == [source |-> "a", target |-> "b", relationship |-> "WORKS_FOR", properties |-> "{}"]
EdgeBA == [source |-> "b", target |-> "a", relationship |-> "EMPLOYS",   properties |-> "{since}"]
EdgeAA == [source |-> "a", target |-> "a", relationship |-> "KNOWS",     properties |-> "{}"]

\* The values of GraphData (lines 10-29) a completion decodes to in the model:
\* a graph with two nodes and an edge each way, the empty graph, one whose
\* second edge names a missing target, one whose only edge names a missing
\* source, and one with two nodes of the same name.
GraphData ==
    { [nodes |-> << PersonA, CompanyB >>, edges |-> << EdgeAB, EdgeBA >>],
      [nodes |-> << >>,                   edges |-> << >>],
      [nodes |-> << PersonA >>,           edges |-> << EdgeAA, EdgeAB >>],
      [nodes |-> << CompanyB >>,          edges |-> << EdgeAB >>],
      [nodes |-> << PersonA, CompanyA >>, edges |-> << EdgeAA >>] }

NoGraph == [nodes |-> << >>, edges |-> << >>, absent |-> TRUE]

\* Faulty variant of mock_llm_response: the graph depends on the text.
mock_from_content(content) ==
    [nodes |-> << [label |-> "Document", name |-> content, properties |-> "{}"] >>,
     edges |-> << >>]

\* Faulty variant of mock_llm_response: the edge names the company by
\* another spelling.
mock_misspelt(content) ==
    [nodes |-> << [label |-> "Person",  name |-> "John Doe",    properties |-> "{role: Engineer}"],
                  [label |-> "Company", name |-> "Readur Corp", properties |-> "{industry: Tech}"] >>,
     edges |-> << [source |-> "John Doe", target |-> "Readur",
                   relationship |-> "WORKS_FOR", properties |-> "{}"] >>]

mock_llm_response(content) ==
    [nodes |-> << [label |-> "Person",  name |-> "John Doe",    properties |-> "{role: Engineer}"],
                  [label |-> "Company", name |-> "Readur Corp", properties |-> "{industry: Tech}"] >>,
     edges |-> << [source |-> "John Doe", target |-> "Readur Corp",
                   relationship |-> "WORKS_FOR", properties |-> "{}"] >>]

\* ------------------------------------------------------------------ state
VARIABLES
    api_key,         \* LLMService.api_key: TRUE iff LLM_API_KEY was set
    calls,           \* analyze_document invocations started so far
    pc,              \* per worker: where its analyze_document call stands
    doc,             \* per worker: document_id of the call
    content,         \* per worker: the text chosen for extraction
    data,            \* per worker: graph_data, the result of extraction
    http,            \* per worker: requests sent to the model service by the call
    response,        \* per worker: kind of answer the model service gave the call
    xid,             \* per worker: transaction of the call (0: none begun)
    snap,            \* per worker: ids seen by a DELETE that is waiting on a lock
    node_map,        \* per worker: node_map of store_graph_data (name -> id)
    ret,             \* per worker: value returned by the last call
    alone,           \* per worker: no call for the same document has overlapped this one
    document_nodes,  \* table document_nodes, all row versions
    document_edges,  \* table document_edges, all row versions
    xstatus,         \* status of every transaction begun, by xid
    next_id          \* next identifier the database generates

\* The text handling of call_llm_api, followed on one text at a time.
VARIABLES
    stage,           \* how far the text handling has come ("off": not followed)
    chars,           \* content.chars() of call_llm_api (line 87)
    prompt,          \* the prompt built from it (line 82)
    fenced,          \* the pieces the completion text was put together from
    content_str,     \* the completion text of the response (line 114)
    cleaned,         \* clean_json (line 118)
    graph_data       \* the result of parsing it (line 124)

text_vars == << stage, chars, prompt, fenced, content_str, cleaned, graph_data >>

vars == << api_key, calls, pc, doc, content, data, http, response, xid, snap, node_map,
           ret, alone, document_nodes, document_edges, xstatus, next_id, text_vars >>

tables == << document_nodes, document_edges, xstatus, next_id >>

NoRet == [ok |-> FALSE, pending |-> TRUE]
Ok(g) == [ok |-> TRUE, graph |-> g]
Err(e) == [ok |-> FALSE, err |-> e]
EmptyMap == [n \in {} |-> 0]

InCall(w) == pc[w] \notin {"idle", "returned"}

\* The graph an earlier run of the service has stored for document d1.
StoredGraph == [nodes |-> << PersonA, CompanyB >>, edges |-> << EdgeAB, EdgeBA >>]

\* The tables are empty, or hold what a committed store_graph_data("d1",
\* StoredGraph) of transaction 1 left: nodes 1 and 2, edges 3 and 4.
InitTables ==
    \/ /\ document_nodes = {}
       /\ document_edges = {}
       /\ xstatus = << >>
       /\ next_id = 1
    \/ /\ document_nodes =
             { [id |-> j, document_id |-> "d1", label |-> StoredGraph.nodes[j].label,
                name |-> StoredGraph.nodes[j].name,
                properties |-> StoredGraph.nodes[j].properties,
                xmin |-> 1, xmax |-> 0] : j \in 1..2 }
       /\ document_edges =
             { [id |-> 3, document_id |-> "d1", source_node_id |-> 1, target_node_id |-> 2,
                relationship |-> "WORKS_FOR", properties |-> "{}", xmin |-> 1, xmax |-> 0],
               [id |-> 4, document_id |-> "d1", source_node_id |-> 2, target_node_id |-> 1,
                relationship |-> "EMPLOYS", properties |-> "{since}", xmin |-> 1, xmax |-> 0] }
       /\ xstatus = << "committed" >>
       /\ next_id = 5

NoParts == [pre |-> << >>, open |-> << >>, gap1 |-> << >>, json |-> << >>,
            gap2 |-> << >>, close |-> << >>, post |-> << >>]

\* The text handling is not followed.
TextIdle ==
    /\ stage = "off"
    /\ chars = << >>
    /\ prompt = << >>
    /\ fenced = NoParts
    /\ content_str = << >>
    /\ cleaned = << >>
    /\ graph_data = NoRet

Init ==
    /\ api_key \in BOOLEAN
    /\ calls = 0
    /\ pc = [w \in Workers |-> "idle"]
    /\ doc = [w \in Workers |-> None]
    /\ content = [w \in Workers |-> None]
    /\ data = [w \in Workers |-> NoGraph]
    /\ http = [w \in Workers |-> 0]
    /\ response = [w \in Workers |-> None]
    /\ xid = [w \in Workers |-> 0]
    /\ snap = [w \in Workers |-> {}]
    /\ node_map = [w \in Workers |-> EmptyMap]
    /\ ret = [w \in Workers |-> NoRet]
    /\ alone = [w \in Workers |-> TRUE]
    /\ InitTables
    /\ TextIdle

\* ------------------------------------------------- visibility of the rows
Committed(x) == x \in 1..Len(xstatus) /\ xstatus[x] = "committed"
Active(x) == x \in 1..Len(xstatus) /\ xstatus[x] = "active"

\* A row version every new statement of every session sees.
Live(r) == Committed(r.xmin) /\ ~Committed(r.xmax)

\* What a reader of document d gets.
NodesOf(d) == { r \in document_nodes : r.document_id = d /\ Live(r) }
EdgesOf(d) == { r \in document_edges : r.document_id = d /\ Live(r) }

\* The columns a SELECT returns, without the system columns.
Columns(r) == [c \in (DOMAIN r) \ {"xmin", "xmax"} |-> r[c]]
ReadNodes(d) == { Columns(r) : r \in NodesOf(d) }
ReadEdges(d) == { Columns(r) : r \in EdgesOf(d) }
ReadGraph(d) == << ReadNodes(d), ReadEdges(d) >>

\* The row is locked by a transaction, other than x, that has not finished.
LockedFor(r, x) == r.xmax # x /\ Active(r.xmax)

\* ------------------------------------------------------- analyze_document
\* Lines 57-66: the document row, then the text to analyze.
FetchContent(d, db_ok) ==
    IF ~db_ok THEN Err(<< "database error" >>)
    ELSE IF d \notin DOMAIN Documents THEN Err(<< "Document not found" >>)
    ELSE IF OptionOr(Documents[d].ocr_text, Documents[d].content) = None
         THEN Err(<< "No content to analyze" >>)
    ELSE [ok |-> TRUE, text |-> OptionOr(Documents[d].ocr_text, Documents[d].content)]

\* A worker's call has ended with r: the locals of the call are dropped.
Return(w, r) ==
    /\ pc' = [pc EXCEPT ![w] = "returned"]
    /\ ret' = [ret EXCEPT ![w] = r]
    /\ content' = [content EXCEPT ![w] = None]
    /\ snap' = [snap EXCEPT ![w] = {}]
    /\ node_map' = [node_map EXCEPT ![w] = EmptyMap]

AnalyzeDocument(w) ==
    /\ pc[w] \in {"idle", "returned"}
    /\ \A u \in Workers : u < w => InCall(u)
    /\ calls < MaxCalls
    /\ calls' = calls + 1
    /\ \E d \in DocIds, db_ok \in BOOLEAN :
          LET f == FetchContent(d, db_ok) IN
          /\ doc' = [doc EXCEPT ![w] = d]
          /\ IF f.ok
             THEN /\ pc' = [pc EXCEPT ![w] = "extract"]
                  /\ content' = [content EXCEPT ![w] = f.text]
                  /\ ret' = [ret EXCEPT ![w] = NoRet]
                  /\ UNCHANGED << snap, node_map >>
             ELSE Return(w, f)
    /\ data' = [data EXCEPT ![w] = NoGraph]
    /\ http' = [http EXCEPT ![w] = 0]
    /\ response' = [response EXCEPT ![w] = None]
    /\ xid' = [xid EXCEPT ![w] = 0]
    /\ alone' = [v \in Workers |->
                    IF v = w THEN \A u \in Workers \ {w} : ~(InCall(u) /\ doc[u] = doc'[w])
                    ELSE IF InCall(v) /\ doc[v] = doc'[w] THEN FALSE ELSE alone[v]]
    /\ UNCHANGED << text_vars, api_key, tables >>

\* ----------------------------------------------------------- call_llm_api
\* What the model service can answer to the one request of lines 99-105.
Responses ==
    { [kind |-> k] : k \in {"send_error", "error_status", "body_not_json",
                            "no_completion_text", "not_graph_json"} }
    \cup { [kind |-> "completion", graph |-> g] : g \in GraphData }

\* Faulty variant of SendCount: a request that could not be sent is retried.
SendCountRetrying(resp) == IF resp.kind = "send_error" THEN 2 ELSE 1

\* Requests call_llm_api sends (line 103), whatever the answer.
SendCount(resp) == 1

call_llm_api(text, resp) ==
    CASE resp.kind = "send_error"         -> Err(<< "Failed to send request to LLM" >>)
      [] resp.kind = "error_status"       -> Err(<< "LLM API returned error" >>)
      [] resp.kind = "body_not_json"      -> Err(<< "Failed to parse LLM response" >>)
      [] resp.kind = "no_completion_text" -> Err(<< "Invalid response format from LLM" >>)
      [] resp.kind = "not_graph_json"     -> Err(<< "Failed to parse GraphData JSON" >>)
      [] resp.kind = "completion"         -> Ok(resp.graph)

\* Faulty variant of Propagate: a failed extraction falls back to the mock.
PropagateOrFallback(r, text) == IF r.ok THEN r ELSE Ok(mock_llm_response(text))

\* Line 70: `self.call_llm_api(&content).await?`
Propagate(r, text) == r

\* Lines 69-70, credential configured.
CallLlmApi(w) ==
    /\ pc[w] = "extract"
    /\ api_key
    /\ \E resp \in Responses :
          LET r == Propagate(call_llm_api(content[w], resp), content[w]) IN
          /\ http' = [http EXCEPT ![w] = @ + SendCount(resp)]
          /\ response' = [response EXCEPT ![w] = resp.kind]
          /\ IF r.ok
             THEN /\ data' = [data EXCEPT ![w] = r.graph]
                  /\ pc' = [pc EXCEPT ![w] = "begin"]
                  /\ UNCHANGED << ret, content, snap, node_map >>
             ELSE /\ Return(w, r)
                  /\ UNCHANGED data
    /\ UNCHANGED << text_vars, api_key, calls, doc, xid, alone, tables >>

\* Lines 71-73, no credential.
MockLlmResponse(w) ==
    /\ pc[w] = "extract"
    /\ ~api_key
    /\ data' = [data EXCEPT ![w] = mock_llm_response(content[w])]
    /\ pc' = [pc EXCEPT ![w] = "begin"]
    /\ UNCHANGED << text_vars, api_key, calls, doc, content, http, response, xid, snap, node_map,
                    ret, alone, tables >>

\* ------------------------------------------------------- store_graph_data
\* Row versions no statement can see any more are removed from the tables:
\* those written by a transaction that rolled back and those deleted by one
\* that committed; a deletion mark of a transaction that rolled back is void.
Vacuum(rows, status) ==
    { IF r.xmax # 0 /\ status[r.xmax] = "aborted" THEN [r EXCEPT !.xmax = 0] ELSE r :
        r \in { q \in rows : /\ status[q.xmin] # "aborted"
                             /\ ~(q.xmax # 0 /\ status[q.xmax] = "committed") } }

\* Transaction x ends with status st; rows are the tables as x leaves them.
EndTx(x, st, nodes, edges) ==
    LET status == [xstatus EXCEPT ![x] = st] IN
    /\ xstatus' = status
    /\ document_nodes' = Vacuum(nodes, status)
    /\ document_edges' = Vacuum(edges, status)

\* Faulty variant of StoreFails: what the call wrote is committed although
\* the call returns the error.
StoreFailsKeepingRows(w, e, nodes, edges) ==
    /\ EndTx(xid[w], "committed", nodes, edges)
    /\ Return(w, Err(e))

\* Faulty variant of StoreFails: the error of the store is swallowed and the
\* graph is returned.
StoreFailsSwallowed(w, e, nodes, edges) ==
    /\ EndTx(xid[w], "aborted", nodes, edges)
    /\ Return(w, Ok(data[w]))

\* The store failed with error e: the `?` drops tx, which rolls the
\* transaction back, and analyze_document returns the error (line 76).
StoreFails(w, e, nodes, edges) ==
    /\ EndTx(xid[w], "aborted", nodes, edges)
    /\ Return(w, Err(e))

\* Line 157: pool.begin().
Begin(w) ==
    /\ pc[w] = "begin"
    /\ \/ /\ xid' = [xid EXCEPT ![w] = Len(xstatus) + 1]
          /\ xstatus' = Append(xstatus, "active")
          /\ pc' = [pc EXCEPT ![w] = "delete"]
          /\ UNCHANGED << ret, content, snap, node_map >>
       \/ /\ Return(w, Err(<< "database error" >>))
          /\ UNCHANGED << xid, xstatus >>
    /\ UNCHANGED << text_vars, api_key, calls, doc, data, http, response, alone,
                    document_nodes, document_edges, next_id >>

\* Faulty variant of DeleteTargets: the DELETE matches no row.
DeleteTargetsNone(d) == {}

\* Faulty variant of DeleteTargets: the DELETE has no WHERE clause.
DeleteTargetsAllDocuments(d) == { r.id : r \in { n \in document_nodes : Live(n) } }

\* Lines 160-162: the node rows "DELETE ... WHERE document_id = $1" finds.
DeleteTargets(d) == { r.id : r \in NodesOf(d) }

\* Transaction x deletes the node rows ids that no committed transaction
\* has deleted meanwhile.
DeletedNodes(x, ids) ==
    { IF r.id \in ids /\ ~Committed(r.xmax) THEN [r EXCEPT !.xmax = x] ELSE r :
        r \in document_nodes }

\* The edge rows that go with deleted node rows (foreign keys of
\* document_edges into document_nodes, deleting in cascade).
CascadedEdges(x, ids) ==
    LET gone == { r.id : r \in { n \in document_nodes :
                                   n.id \in ids /\ ~Committed(n.xmax) } } IN
    { IF (e.source_node_id \in gone \/ e.target_node_id \in gone)
         /\ Committed(e.xmin) /\ ~Committed(e.xmax)
      THEN [e EXCEPT !.xmax = x] ELSE e : e \in document_edges }

Blocked(x, ids) == \E r \in document_nodes : r.id \in ids /\ LockedFor(r, x)

\* Lines 160-164: the DELETE starts; it completes at once unless one of its
\* rows is locked by an unfinished transaction.
DeleteNodes(w) ==
    /\ pc[w] = "delete"
    /\ LET ids == DeleteTargets(doc[w]) IN
       \/ /\ ~Blocked(xid[w], ids)
          /\ document_nodes' = DeletedNodes(xid[w], ids)
          /\ document_edges' = CascadedEdges(xid[w], ids)
          /\ pc' = [pc EXCEPT ![w] = "nodes"]
          /\ UNCHANGED << ret, content, snap, node_map, xstatus >>
       \/ /\ Blocked(xid[w], ids)
          /\ snap' = [snap EXCEPT ![w] = ids]
          /\ pc' = [pc EXCEPT ![w] = "delete_wait"]
          /\ UNCHANGED << ret, content, node_map, xstatus,
                          document_nodes, document_edges >>
       \/ StoreFails(w, << "database error" >>, document_nodes, document_edges)
    /\ UNCHANGED << text_vars, api_key, calls, doc, data, http, response, xid, alone, next_id >>

\* The waiting DELETE goes on once the transactions holding its rows have
\* finished: it deletes the rows they left, and sees no row they added.
DeleteResume(w) ==
    /\ pc[w] = "delete_wait"
    /\ ~Blocked(xid[w], snap[w])
    /\ document_nodes' = DeletedNodes(xid[w], snap[w])
    /\ document_edges' = CascadedEdges(xid[w], snap[w])
    /\ pc' = [pc EXCEPT ![w] = "nodes"]
    /\ snap' = [snap EXCEPT ![w] = {}]
    /\ UNCHANGED << text_vars, api_key, calls, doc, content, data, http, response, xid, node_map,
                    ret, alone, xstatus, next_id >>

\* Faulty variant of NodeRow: the document id bound to the INSERT is that of
\* no document.
NodeRowOtherDocument(d, x, id, node) ==
    [id |-> id, document_id |-> "d4", label |-> node.label, name |-> node.name,
     properties |-> node.properties, xmin |-> x, xmax |-> 0]

\* Lines 170-177: the row one INSERT INTO document_nodes writes.
NodeRow(d, x, id, node) ==
    [id |-> id, document_id |-> d, label |-> node.label, name |-> node.name,
     properties |-> node.properties, xmin |-> x, xmax |-> 0]

\* Faulty variant of NodeMap: an entry already present is kept.
NodeMapFirstWins(nodes, base, k) ==
    [n \in { nodes[j].name : j \in 1..k } |->
        LET first == CHOOSE j \in 1..k :
                        /\ nodes[j].name = n
                        /\ \A i \in 1..k : nodes[i].name = n => j <= i
        IN base + first - 1]

\* Faulty variant of NodeMap: the map starts from the names of the node rows
\* already stored.
NodeMapWithStored(nodes, base, k) ==
    LET new == { nodes[j].name : j \in 1..k }
        old == { r.name : r \in { q \in document_nodes : Live(q) } }
    IN  [n \in new \cup old |->
            IF n \in new
            THEN LET last == CHOOSE j \in 1..k :
                                /\ nodes[j].name = n
                                /\ \A i \in 1..k : nodes[i].name = n => i <= j
                 IN base + last - 1
            ELSE (CHOOSE r \in document_nodes : Live(r) /\ r.name = n).id]

\* Lines 167-183: node_map after the first k nodes, the j-th of which got
\* identifier base + j - 1; HashMap::insert replaces an entry of the same key.
NodeMap(nodes, base, k) ==
    [n \in { nodes[j].name : j \in 1..k } |->
        LET last == CHOOSE j \in 1..k :
                       /\ nodes[j].name = n
                       /\ \A i \in 1..k : nodes[i].name = n => i <= j
        IN base + last - 1]

\* Lines 166-183: the node loop; k inserts succeed, and the loop ends early
\* with the error of insert k + 1 when k < Len(data.nodes).
InsertNodes(w) ==
    /\ pc[w] = "nodes"
    /\ \E k \in 0..Len(data[w].nodes) :
          LET nodes == document_nodes \cup
                { NodeRow(doc[w], xid[w], next_id + j - 1, data[w].nodes[j]) : j \in 1..k }
          IN
          /\ next_id' = next_id + k
          /\ IF k = Len(data[w].nodes)
             THEN /\ document_nodes' = nodes
                  /\ node_map' = [node_map EXCEPT
                                     ![w] = NodeMap(data[w].nodes, next_id, k)]
                  /\ pc' = [pc EXCEPT ![w] = "edges"]
                  /\ UNCHANGED << ret, content, snap, xstatus, document_edges >>
             ELSE StoreFails(w, << "database error" >>, nodes, document_edges)
    /\ UNCHANGED << text_vars, api_key, calls, doc, data, http, response, xid, alone >>

\* Faulty variant of EdgeRow: source and target bound in the wrong order.
EdgeRowSwapped(d, x, id, source_id, target_id, edge) ==
    [id |-> id, document_id |-> d, source_node_id |-> target_id,
     target_node_id |-> source_id, relationship |-> edge.relationship,
     properties |-> edge.properties, xmin |-> x, xmax |-> 0]

\* Lines 190-198: the row one INSERT INTO document_edges writes.
EdgeRow(d, x, id, source_id, target_id, edge) ==
    [id |-> id, document_id |-> d, source_node_id |-> source_id,
     target_node_id |-> target_id, relationship |-> edge.relationship,
     properties |-> edge.properties, xmin |-> x, xmax |-> 0]

\* Faulty variant of Lookup: a missing target defaults to the source node.
LookupDefaulting(map, edge) ==
    IF edge.source \notin DOMAIN map
      THEN Err(<< "Source node", edge.source, "not found" >>)
    ELSE [ok |-> TRUE, source_id |-> map[edge.source],
          target_id |-> IF edge.target \in DOMAIN map THEN map[edge.target]
                        ELSE map[edge.source]]

\* Lines 187-188: the lookups of one edge; source first, then target.
Lookup(map, edge) ==
    IF edge.source \notin DOMAIN map
      THEN Err(<< "Source node", edge.source, "not found" >>)
    ELSE IF edge.target \notin DOMAIN map
      THEN Err(<< "Target node", edge.target, "not found" >>)
    ELSE [ok |-> TRUE, source_id |-> map[edge.source], target_id |-> map[edge.target]]

\* Index of the first edge whose lookup fails, 0 if every lookup succeeds.
FirstDangling(map, edges) ==
    IF \A j \in 1..Len(edges) : Lookup(map, edges[j]).ok THEN 0
    ELSE CHOOSE j \in 1..Len(edges) :
            /\ ~Lookup(map, edges[j]).ok
            /\ \A i \in 1..(j - 1) : Lookup(map, edges[i]).ok

\* Lines 185-201: the edge loop; k inserts succeed.  It ends early with the
\* lookup error of the first dangling edge, or with the error of insert k + 1.
InsertEdges(w) ==
    /\ pc[w] = "edges"
    /\ LET list == data[w].edges
           fd == FirstDangling(node_map[w], list)
           reach == IF fd = 0 THEN Len(list) ELSE fd - 1
       IN \E k \in 0..reach :
          LET edges == document_edges \cup
                { EdgeRow(doc[w], xid[w], next_id + j - 1,
                          Lookup(node_map[w], list[j]).source_id,
                          Lookup(node_map[w], list[j]).target_id, list[j]) : j \in 1..k }
          IN
          /\ next_id' = next_id + k
          /\ IF k < reach
               THEN StoreFails(w, << "database error" >>, document_nodes, edges)
             ELSE IF fd # 0
               THEN StoreFails(w, Lookup(node_map[w], list[fd]).err, document_nodes, edges)
             ELSE /\ document_edges' = edges
                  /\ pc' = [pc EXCEPT ![w] = "commit"]
                  /\ node_map' = [node_map EXCEPT ![w] = EmptyMap]
                  /\ UNCHANGED << ret, content, snap, xstatus, document_nodes >>
    /\ UNCHANGED << text_vars, api_key, calls, doc, data, http, response, xid, alone >>

\* Lines 203-204 and 76-78: commit, then analyze_document returns the graph.
Returned(g) == Ok(g)

Commit(w) ==
    /\ pc[w] = "commit"
    /\ \/ /\ EndTx(xid[w], "committed", document_nodes, document_edges)
          /\ Return(w, Returned(data[w]))
       \/ StoreFails(w, << "database error" >>, document_nodes, document_edges)
    /\ UNCHANGED << text_vars, api_key, calls, doc, data, http, response, xid, alone, next_id >>

\* ---------------------------------------------------------- specification
Next ==
    \E w \in Workers :
        \/ AnalyzeDocument(w)
        \/ CallLlmApi(w)
        \/ MockLlmResponse(w)
        \/ Begin(w)
        \/ DeleteNodes(w)
        \/ DeleteResume(w)
        \/ InsertNodes(w)
        \/ InsertEdges(w)
        \/ Commit(w)

Spec == Init /\ [][Next]_vars

\* ------------------------------------------- text handling of call_llm_api
MaxPad == 1       \* longest run of whitespace around a piece of a completion
MaxOver == 2      \* how far beyond the cap the longest content reaches

\* Line 87: `.take(4000)`.
ExcerptCap == 4000

Min(a, b) == IF a <= b THEN a ELSE b

\* Faulty variant of Take: the last character within the cap is lost.
TakeOneLess(s, n) == SubSeq(s, 1, Min(Len(s), n - 1))

\* Iterator::take followed by collect: the first n items, all if fewer.
Take(s, n) == SubSeq(s, 1, Min(Len(s), n))

\* Lines 82-88: the instructions, then the excerpt.
PromptHeader == "Extract entities (nodes) and relationships (edges) ... Text: "
format_prompt(s) == << PromptHeader >> \o Take(s, ExcerptCap)

\* char::is_whitespace, as far as the characters used here go.
RustWhitespace == {" ", "\n", "\t", "\r", "\f"}
\* The whitespace serde_json skips around a value.
JsonWhitespace == {" ", "\n", "\t", "\r"}

RECURSIVE SkipStart(_, _)
SkipStart(s, ws) == IF s # << >> /\ Head(s) \in ws THEN SkipStart(Tail(s), ws) ELSE s
RECURSIVE SkipEnd(_, _)
SkipEnd(s, ws) ==
    IF s # << >> /\ s[Len(s)] \in ws THEN SkipEnd(SubSeq(s, 1, Len(s) - 1), ws) ELSE s

\* str::trim
Trim(s) == SkipEnd(SkipStart(s, RustWhitespace), RustWhitespace)

IsPrefix(p, s) == Len(p) <= Len(s) /\ SubSeq(s, 1, Len(p)) = p
IsSuffix(p, s) == Len(p) <= Len(s) /\ SubSeq(s, Len(s) - Len(p) + 1, Len(s)) = p

\* str::trim_start_matches: every leading repetition of the pattern goes.
RECURSIVE TrimStartMatches(_, _)
TrimStartMatches(s, p) ==
    IF p # << >> /\ IsPrefix(p, s)
    THEN TrimStartMatches(SubSeq(s, Len(p) + 1, Len(s)), p)
    ELSE s

\* str::trim_end_matches: every trailing repetition of the pattern goes.
RECURSIVE TrimEndMatches(_, _)
TrimEndMatches(s, p) ==
    IF p # << >> /\ IsSuffix(p, s)
    THEN TrimEndMatches(SubSeq(s, 1, Len(s) - Len(p)), p)
    ELSE s

\* The backquote character, U+0060.
Backquote == "U+0060"
Fence == << Backquote, Backquote, Backquote >>
FenceJson == Fence \o << "j", "s", "o", "n" >>

\* Faulty variant of clean_json: the bare fence is stripped before the
\* tagged one.
clean_json_bare_first(s) ==
    Trim(TrimEndMatches(TrimStartMatches(TrimStartMatches(Trim(s), Fence), FenceJson), Fence))

\* Lines 118-122.
clean_json(s) ==
    Trim(TrimEndMatches(TrimStartMatches(TrimStartMatches(Trim(s), FenceJson), Fence), Fence))

\* JSON text of a graph.  An object is written "{" fields "}", a list
\* "[" objects "]"; a field value is one symbol of the text.
RECURSIVE Flatten(_)
Flatten(ss) == IF ss = << >> THEN << >> ELSE Head(ss) \o Flatten(Tail(ss))
EncodeNode(n) == << "{", n.label, n.name, n.properties, "}" >>
EncodeEdge(e) == << "{", e.source, e.target, e.relationship, e.properties, "}" >>
Encode(g) ==
    << "{", "[" >> \o Flatten([i \in 1..Len(g.nodes) |-> EncodeNode(g.nodes[i])])
    \o << "]", "[" >> \o Flatten([i \in 1..Len(g.edges) |-> EncodeEdge(g.edges[i])])
    \o << "]", "}" >>

\* Reads objects of width fields up to the closing "]".
NoItems == [ok |-> FALSE, items |-> << >>, rest |-> << >>]
RECURSIVE ParseItems(_, _, _)
ParseItems(s, width, acc) ==
    IF s = << >> THEN NoItems
    ELSE IF Head(s) = "]" THEN [ok |-> TRUE, items |-> acc, rest |-> Tail(s)]
    ELSE IF Head(s) = "{" /\ Len(s) >= width + 2 /\ s[width + 2] = "}"
         THEN ParseItems(SubSeq(s, width + 3, Len(s)), width,
                         Append(acc, SubSeq(s, 2, width + 1)))
    ELSE NoItems

\* Line 124: serde_json::from_str::<GraphData>, with the error of line 125.
from_str(s) ==
    LET t == SkipEnd(SkipStart(s, JsonWhitespace), JsonWhitespace)
        bad == Err(<< "Failed to parse GraphData JSON" >>)
    IN  IF ~(Len(t) >= 2 /\ t[1] = "{" /\ t[2] = "[") THEN bad
        ELSE LET ns == ParseItems(SubSeq(t, 3, Len(t)), 3, << >>) IN
             IF ~(ns.ok /\ ns.rest # << >> /\ Head(ns.rest) = "[") THEN bad
             ELSE LET es == ParseItems(Tail(ns.rest), 4, << >>) IN
                  IF ~(es.ok /\ es.rest = << "}" >>) THEN bad
                  ELSE Ok([nodes |-> [i \in 1..Len(ns.items) |->
                                        [label |-> ns.items[i][1], name |-> ns.items[i][2],
                                         properties |-> ns.items[i][3]]],
                           edges |-> [i \in 1..Len(es.items) |->
                                        [source |-> es.items[i][1], target |-> es.items[i][2],
                                         relationship |-> es.items[i][3],
                                         properties |-> es.items[i][4]]]])

\* The contents call_llm_api is given: of every length around the cap, in
\* two spellings.
Alphabet == << "x", "y", "z" >>
TextOf(n, k) == [i \in 1..n |-> Alphabet[((i + k) % 3) + 1]]
Lengths == {0, 1} \cup ((ExcerptCap - 1)..(ExcerptCap + MaxOver))
Texts == { TextOf(n, k) : n \in Lengths, k \in 0..1 }

\* The completions the model service answers with: the JSON text of a
\* graph, an opening fence (bare or tagged) or none before it, a closing
\* fence or none after it, and whitespace around each piece.
Pads == UNION { [1..n -> {" ", "\n"}] : n \in 0..MaxPad }
Parts ==
    [pre : Pads, open : {<< >>, Fence, FenceJson}, gap1 : Pads,
     json : { Encode(g) : g \in GraphData },
     gap2 : Pads, close : {<< >>, Fence}, post : Pads]
Compose(p) == p.pre \o p.open \o p.gap1 \o p.json \o p.gap2 \o p.close \o p.post

service_vars == << api_key, calls, pc, doc, content, data, http, response, xid, snap,
                   node_map, ret, alone, document_nodes, document_edges, xstatus, next_id >>

\* call_llm_api is entered with a content, or has received a completion.
InitText ==
    /\ api_key = TRUE
    /\ calls = 0
    /\ pc = [w \in Workers |-> "idle"]
    /\ doc = [w \in Workers |-> None]
    /\ content = [w \in Workers |-> None]
    /\ data = [w \in Workers |-> NoGraph]
    /\ http = [w \in Workers |-> 0]
    /\ response = [w \in Workers |-> None]
    /\ xid = [w \in Workers |-> 0]
    /\ snap = [w \in Workers |-> {}]
    /\ node_map = [w \in Workers |-> EmptyMap]
    /\ ret = [w \in Workers |-> NoRet]
    /\ alone = [w \in Workers |-> TRUE]
    /\ document_nodes = {}
    /\ document_edges = {}
    /\ xstatus = << >>
    /\ next_id = 1
    /\ \/ /\ stage = "prompt"
          /\ chars \in Texts
          /\ fenced = NoParts
          /\ content_str = << >>
       \/ /\ stage = "clean"
          /\ chars = << >>
          /\ fenced \in Parts
          /\ content_str = Compose(fenced)
    /\ prompt = << >>
    /\ cleaned = << >>
    /\ graph_data = NoRet

\* Lines 82-88.
BuildPrompt ==
    /\ stage = "prompt"
    /\ prompt' = format_prompt(chars)
    /\ stage' = "sent"
    /\ UNCHANGED << service_vars, chars, fenced, content_str, cleaned, graph_data >>

\* Lines 118-122.
CleanUp ==
    /\ stage = "clean"
    /\ cleaned' = clean_json(content_str)
    /\ stage' = "parse"
    /\ UNCHANGED << service_vars, chars, prompt, fenced, content_str, graph_data >>

\* Lines 124-127.
ParseGraphData ==
    /\ stage = "parse"
    /\ graph_data' = from_str(cleaned)
    /\ stage' = "done"
    /\ UNCHANGED << service_vars, chars, prompt, fenced, content_str, cleaned >>

NextText == BuildPrompt \/ CleanUp \/ ParseGraphData

SpecText == InitText /\ [][NextText]_vars

\* ================================================================= claims
\* Worker w's call commits its transaction in this step and returns Ok.
CommitsOk(w) == pc[w] = "commit" /\ pc'[w] = "returned" /\ ret'[w].ok

\* Worker w's call wrote every row a reader of its document sees, one node
\* row per node and one edge row per edge of its graph.
ExactlyOwnGraph(w) ==
    /\ \A r \in NodesOf(doc[w]) \cup EdgesOf(doc[w]) : r.xmin = xid[w]
    /\ Cardinality(NodesOf(doc[w])) = Len(data[w].nodes)
    /\ Cardinality(EdgesOf(doc[w])) = Len(data[w].edges)

\* Worker w's call has returned, no call for its document overlapped it,
\* and every transaction begun after its own is that of a call for another
\* document: a read of its document now follows its store.
Settled(w) ==
    /\ pc[w] = "returned"
    /\ alone[w]
    /\ xid[w] # 0
    /\ \A x \in (xid[w] + 1)..Len(xstatus) :
          \E v \in Workers : xid[v] = x /\ doc[v] # doc[w]

StoreErrors == { << "database error" >> }
ExtractionErrors ==
    { << "Failed to send request to LLM" >>, << "LLM API returned error" >>,
      << "Failed to parse LLM response" >>, << "Invalid response format from LLM" >>,
      << "Failed to parse GraphData JSON" >> }

NodeNames(g) == { g.nodes[j].name : j \in 1..Len(g.nodes) }
DanglingEdge(g, e) == e.source \notin NodeNames(g) \/ e.target \notin NodeNames(g)
HasDangling(g) == \E j \in 1..Len(g.edges) : DanglingEdge(g, g.edges[j])
ValidGraph(g) == ~HasDangling(g)

\* C1: atomicity of replace.  What readers see changes only in the step in
\* which a call commits successfully: a store that fails at begin, at the
\* delete, at a node insert, at an edge lookup, at an edge insert or at
\* commit leaves the committed rows of every document as they were.  The
\* commit makes all rows of the new graph visible at once, and when no call
\* for the same document overlapped, the rows of the document are then
\* exactly the new graph.
AtomicReplaceStep ==
    /\ (\A w \in Workers : ~CommitsOk(w)) =>
          \A d \in DocIds : ReadGraph(d)' = ReadGraph(d)
    /\ \A w \in Workers : CommitsOk(w) =>
          /\ Cardinality({ r \in NodesOf(doc[w])' : r.xmin = xid[w] }) = Len(data[w].nodes)
          /\ Cardinality({ r \in EdgesOf(doc[w])' : r.xmin = xid[w] }) = Len(data[w].edges)
          /\ alone[w] => ExactlyOwnGraph(w)'
C1_AtomicReplace == [][AtomicReplaceStep]_vars

\* A store failed at the second edge's lookup, after the delete, a node
\* insert and an edge insert, on a document that has a stored graph.
C1_Witness ==
    \E w \in Workers :
        /\ pc[w] = "returned"
        /\ xid[w] # 0 /\ xstatus[xid[w]] = "aborted"
        /\ Len(data[w].nodes) = 1 /\ Len(data[w].edges) = 2
        /\ ret[w].err = << "Target node", "b", "not found" >>
        /\ ReadNodes(doc[w]) # {} /\ ReadEdges(doc[w]) # {}

\* C2: two concurrent replaces of the same document never leave, and no
\* reader ever sees, committed rows of that document written by both calls:
\* the rows a reader sees of one document were all written by one
\* transaction.
C2_NoMergedGraph ==
    \A d \in DocIds :
        \A r, q \in NodesOf(d) \cup EdgesOf(d) : r.xmin = q.xmin

\* C3: store round trip.  After a successful store of a valid graph G for d
\* (no overlapping call for d, nothing stored for d since), reading d gives a graph
\* isomorphic to G: the node rows are, one to one, the nodes of G with their
\* label, name and properties; the edge rows are, one to one, the edges of G
\* with their relationship and properties, each pointing at node rows of d
\* that carry the edge's source and target names.
NodeMatches(row, node) ==
    row.label = node.label /\ row.name = node.name /\ row.properties = node.properties
EdgeMatches(d, row, edge) ==
    /\ row.relationship = edge.relationship
    /\ row.properties = edge.properties
    /\ \E n \in ReadNodes(d) : n.id = row.source_node_id /\ n.name = edge.source
    /\ \E n \in ReadNodes(d) : n.id = row.target_node_id /\ n.name = edge.target
Bijections(n, S) ==
    { f \in [1..n -> S] : /\ \A i, j \in 1..n : f[i] = f[j] => i = j
                          /\ \A x \in S : \E i \in 1..n : f[i] = x }
Isomorphic(d, g) ==
    /\ \E f \in Bijections(Len(g.nodes), ReadNodes(d)) :
          \A j \in 1..Len(g.nodes) : NodeMatches(f[j], g.nodes[j])
    /\ \E f \in Bijections(Len(g.edges), ReadEdges(d)) :
          \A j \in 1..Len(g.edges) : EdgeMatches(d, f[j], g.edges[j])
C3_RoundTrip ==
    \A w \in Workers :
        (Settled(w) /\ ret[w].ok /\ ValidGraph(data[w])) => Isomorphic(doc[w], data[w])

\* A graph with two nodes and two edges was stored and is read back.
C3_Witness ==
    \E w \in Workers :
        /\ Settled(w) /\ ret[w].ok
        /\ Len(data[w].nodes) = 2 /\ Len(data[w].edges) = 2
        /\ Cardinality(ReadEdges(doc[w])) = 2

\* C4: full replace.  After a successful store of G2 for d (no overlapping
\* call for d), every row of d was inserted by that call, one per node and per
\* edge of G2: no node row and no edge row written earlier remains, and
\* none was updated in place.
C4_FullReplace ==
    \A w \in Workers : (Settled(w) /\ ret[w].ok) => ExactlyOwnGraph(w)

\* The stored graph of d1 was replaced by a second store, of the same graph.
C4_Witness ==
    \E w \in Workers :
        /\ Settled(w) /\ ret[w].ok
        /\ xid[w] = 2 /\ xstatus[1] = "committed"
        /\ doc[w] = "d1" /\ data[w] = StoredGraph
        /\ { r.id : r \in NodesOf("d1") } \cap {1, 2} = {}

\* C5: dangling reference rejection.  A call whose graph has an edge naming
\* a node that is not in its nodes never returns Ok; unless the database
\* failed first, its error names the missing endpoint of the first such
\* edge (the source if that is missing, else the target); and no row the
\* call wrote is ever visible, neither a node nor an edge that precedes the
\* offending edge.
FirstDanglingEdge(g) ==
    g.edges[CHOOSE j \in 1..Len(g.edges) :
               /\ DanglingEdge(g, g.edges[j])
               /\ \A i \in 1..(j - 1) : ~DanglingEdge(g, g.edges[i])]
MissingNodeError(g) ==
    LET e == FirstDanglingEdge(g) IN
    IF e.source \notin NodeNames(g) THEN << "Source node", e.source, "not found" >>
    ELSE << "Target node", e.target, "not found" >>
C5_DanglingRejected ==
    \A w \in Workers :
        (data[w] # NoGraph /\ HasDangling(data[w])) =>
            /\ pc[w] = "returned" =>
                  /\ ~ret[w].ok
                  /\ ret[w].err \in StoreErrors \cup { MissingNodeError(data[w]) }
            /\ xid[w] # 0 =>
                  \A d \in DocIds :
                     \A r \in NodesOf(d) \cup EdgesOf(d) : r.xmin # xid[w]

\* A graph whose second edge dangles was rejected with the name of the
\* missing node, after its node and its first edge had been inserted.
C5_Witness ==
    \E w \in Workers :
        /\ pc[w] = "returned"
        /\ HasDangling(data[w])
        /\ Len(data[w].edges) = 2
        /\ ret[w].err = MissingNodeError(data[w])
        /\ xstatus[xid[w]] = "aborted"

\* C6: no partial results.  analyze_document returns Ok(G) only when the
\* transaction of its store has committed, and G is then the graph that
\* extraction produced; a call that has returned without a committed
\* transaction (fetch, extraction or storage failed) returned an error.
C6_NoPartialResult ==
    \A w \in Workers :
        pc[w] = "returned" =>
            /\ ret[w].ok <=> Committed(xid[w])
            /\ ret[w].ok => (data[w] # NoGraph /\ ret[w].graph = data[w])
            /\ ~ret[w].ok => "err" \in DOMAIN ret[w]

\* One call returned the graph it stored, another one an error of its store.
C6_Witness ==
    /\ pc[1] = "returned" /\ ret[1].ok /\ Len(ret[1].graph.edges) = 2
    /\ pc[2] = "returned" /\ ~ret[2].ok /\ xid[2] # 0 /\ xstatus[xid[2]] = "aborted"

\* C7: frame of replace.  A step of a call for document d, successful or
\* not, leaves what readers see of every other document unchanged, also
\* while another call is under way; and two calls for different documents
\* that follow or overlap each other each end with exactly their own graph.
FrameStep ==
    /\ \A w \in Workers :
          pc'[w] # pc[w] =>
             \A d \in DocIds \ {doc'[w]} : ReadGraph(d)' = ReadGraph(d)
    /\ (\A w \in Workers : pc'[w] = pc[w]) =>
          \A d \in DocIds : ReadGraph(d)' = ReadGraph(d)
    /\ \A w, v \in Workers :
          ( /\ Settled(w)' /\ Settled(v)'
            /\ ret'[w].ok /\ ret'[v].ok
            /\ doc'[w] # doc'[v] )
          => (ExactlyOwnGraph(w)' /\ ExactlyOwnGraph(v)')
C7_Frame == [][FrameStep]_vars

\* Two overlapping calls for different documents have both stored a graph
\* with rows, one of them on the document that had a stored graph.
C7_Witness ==
    /\ Settled(1) /\ Settled(2)
    /\ ret[1].ok /\ ret[2].ok
    /\ doc[1] # doc[2]
    /\ xid[2] < xid[1]
    /\ xstatus[1] = "committed" /\ Len(xstatus) = 3
    /\ ReadNodes(doc[1]) # {} /\ ReadNodes(doc[2]) # {}

\* C8: extraction failure is surfaced and changes nothing.  With a
\* credential, when the model call fails (request not sent, error status,
\* body that is no JSON, no completion text, completion that is no Graph),
\* the call returns an error in that step, takes no fallback graph, begins
\* no transaction and leaves the tables as they are; and a call holds a
\* transaction only once its extraction has produced a graph.
ExtractionFailed(w) == response[w] \notin {None, "completion"}
ExtractionFailureStep ==
    \A w \in Workers :
        /\ (pc[w] = "extract" /\ ExtractionFailed(w)') =>
              /\ pc'[w] = "returned"
              /\ ~ret'[w].ok /\ ret'[w].err \in ExtractionErrors
              /\ data'[w] = NoGraph
              /\ xid'[w] = 0
              /\ tables' = tables
        /\ xid'[w] # 0 =>
              /\ data'[w] # NoGraph
              /\ ~ExtractionFailed(w)'
              /\ api_key => response'[w] = "completion"
C8_ExtractionFailure == [][ExtractionFailureStep]_vars

\* A call failed on a completion that is no Graph, on a document that keeps
\* its stored graph.
C8_Witness ==
    \E w \in Workers :
        /\ pc[w] = "returned"
        /\ response[w] = "not_graph_json"
        /\ ret[w].err = << "Failed to parse GraphData JSON" >>
        /\ doc[w] = "d1" /\ Cardinality(ReadNodes("d1")) = 2

\* C9: fallback determinism.  Without a credential every extraction gives
\* the same fixed graph whatever the text (two calls on different texts
\* hold equal graphs), no call fails in extraction and none sends a
\* request; with a credential no call takes the fixed graph.
Extracted(w) == data[w] # NoGraph
C9_FallbackDeterminism ==
    /\ ~api_key =>
          /\ \A w, v \in Workers : (Extracted(w) /\ Extracted(v)) => data[w] = data[v]
          /\ \A w \in Workers : Extracted(w) => data[w] = mock_llm_response("")
          /\ \A w \in Workers : http[w] = 0 /\ response[w] = None
          /\ \A w \in Workers :
                (pc[w] = "returned" /\ ~ret[w].ok) => ret[w].err \notin ExtractionErrors
          /\ \A w \in Workers :
                (pc[w] \notin {"idle", "extract"} /\ xid[w] # 0) => Extracted(w)
    /\ api_key =>
          \A w \in Workers : Extracted(w) => data[w] \in GraphData

\* Two calls on documents with different texts hold the fallback graph.
C9_Witness ==
    /\ ~api_key
    /\ Extracted(1) /\ Extracted(2)
    /\ doc[1] = "d1" /\ doc[2] = "d2"
    /\ Documents["d1"].ocr_text # Documents["d2"].content
    /\ Len(data[1].nodes) = 2

\* C10: one upstream call attempt per extraction.  A call that performs a
\* real extraction has sent exactly one request once the answer is in,
\* whatever the answer; before that, and in a call that extracts nothing or
\* takes the fallback, none was sent; no call ever sends more than one.
C10_OneRequest ==
    \A w \in Workers :
        /\ http[w] <= 1
        /\ response[w] # None <=> http[w] = 1
        /\ (api_key /\ pc[w] \in {"begin", "delete", "delete_wait", "nodes",
                                   "edges", "commit"}) => http[w] = 1
        /\ (api_key /\ pc[w] = "returned" /\ ~ret[w].ok
              /\ ret[w].err \in ExtractionErrors) => http[w] = 1
        /\ (api_key /\ pc[w] = "returned" /\ ret[w].ok) => http[w] = 1

\* A call whose request could not be sent has returned, after one request.
C10_Witness ==
    \E w \in Workers :
        /\ pc[w] = "returned"
        /\ response[w] = "send_error"
        /\ http[w] = 1

\* C11: text selection and early errors.  A call for an id that no document
\* row has returns "Document not found", one for a document with neither
\* OCR text nor stored content returns "No content to analyze" (unless the
\* fetch itself failed in the database); in both cases no request was sent,
\* no graph extracted and no transaction begun.  Otherwise the text handed
\* to extraction is the OCR text when there is one, also when there is
\* stored content, and the stored content only when there is no OCR text.
FetchErrors == { << "database error" >> }
C11_TextSelection ==
    \A w \in Workers :
        /\ (pc[w] # "idle" /\ doc[w] \notin DOMAIN Documents) =>
              /\ pc[w] = "returned" /\ ~ret[w].ok
              /\ ret[w].err \in FetchErrors \cup { << "Document not found" >> }
              /\ http[w] = 0 /\ data[w] = NoGraph /\ xid[w] = 0
        /\ (pc[w] # "idle" /\ doc[w] \in DOMAIN Documents
              /\ Documents[doc[w]].ocr_text = None /\ Documents[doc[w]].content = None) =>
              /\ pc[w] = "returned" /\ ~ret[w].ok
              /\ ret[w].err \in FetchErrors \cup { << "No content to analyze" >> }
              /\ http[w] = 0 /\ data[w] = NoGraph /\ xid[w] = 0
        /\ (pc[w] = "returned" /\ ~ret[w].ok /\ ret[w].err = << "Document not found" >>) =>
              doc[w] \notin DOMAIN Documents
        /\ pc[w] = "extract" =>
              /\ doc[w] \in DOMAIN Documents
              /\ Documents[doc[w]].ocr_text # None => content[w] = Documents[doc[w]].ocr_text
              /\ Documents[doc[w]].ocr_text = None => content[w] = Documents[doc[w]].content
              /\ content[w] # None

\* One call is about to extract from the OCR text of a document that also
\* has stored content, while another has failed on a document without text.
C11_Witness ==
    /\ pc[1] = "extract" /\ doc[1] = "d1" /\ content[1] = "ocr one"
    /\ Documents["d1"].content # None
    /\ pc[2] = "returned" /\ ret[2].err = << "No content to analyze" >> /\ doc[2] = "d3"

\* C12 -- Fence stripping is lossless for well-formed input: a completion
\* made of an opening fence (bare or tagged json), the JSON text J of a
\* graph and a closing fence, with optional whitespace around each, is
\* cleaned to a string that parses to the same graph as J parsed directly;
\* so does a completion without fences.
WellFormed(p) == (p.open = << >>) <=> (p.close = << >>)
C12_FenceStrippingLossless ==
    (stage = "done" /\ WellFormed(fenced)) =>
        /\ from_str(fenced.json).ok
        /\ graph_data = from_str(fenced.json)
        /\ \E g \in GraphData : fenced.json = Encode(g) /\ graph_data = Ok(g)

\* A completion  <ws> tagged fence <ws> J <ws> fence <ws>  has been cleaned and parsed to
\* the graph of J.
C12_Witness ==
    /\ stage = "done"
    /\ fenced.open = FenceJson /\ fenced.close = Fence
    /\ fenced.pre = << " " >> /\ fenced.gap1 = << "\n" >>
    /\ fenced.gap2 = << "\n" >> /\ fenced.post = << "\n" >>
    /\ graph_data = Ok([nodes |-> << PersonA, CompanyB >>, edges |-> << EdgeAB, EdgeBA >>])

\* C13 -- Validation precedes storage: for a graph with an edge whose source
\* or target names no node of the graph, no storage operation (transaction
\* begin, delete, node insert) is issued at all.
C13_ValidationPrecedesStorage ==
    \A w \in Workers :
        (data[w] # NoGraph /\ HasDangling(data[w])) =>
            /\ xid[w] = 0
            /\ pc[w] \notin {"delete", "delete_wait", "nodes", "edges", "commit"}

\* C14 -- Duplicate node names are last-write-wins and not an error: when
\* nodes of the graph share a name the store still succeeds unless the
\* database fails; node_map holds for every name the identifier of the node
\* of that name inserted last, and every edge row carries, for its source
\* and for its target, the identifier of that last node, never an earlier
\* one.
OwnNodes(w) == { r \in document_nodes : r.xmin = xid[w] }
OwnEdges(w) == { r \in document_edges : r.xmin = xid[w] }
HasDuplicate(g) ==
    \E i, j \in 1..Len(g.nodes) : i < j /\ g.nodes[i].name = g.nodes[j].name
LastNamed(g, n) ==
    g.nodes[CHOOSE j \in 1..Len(g.nodes) :
               /\ g.nodes[j].name = n
               /\ \A i \in 1..Len(g.nodes) : g.nodes[i].name = n => i <= j]
IsLastRow(w, n, id) ==
    \E q \in OwnNodes(w) :
        /\ q.id = id
        /\ NodeMatches(q, LastNamed(data[w], n))
        /\ \A r \in OwnNodes(w) : r.name = n => r.id <= id
C14_LastWriteWins ==
    \A w \in Workers :
        /\ pc[w] = "edges" =>
              /\ DOMAIN node_map[w] = NodeNames(data[w])
              /\ \A n \in NodeNames(data[w]) : IsLastRow(w, n, node_map[w][n])
        /\ (pc[w] = "commit" \/ (pc[w] = "returned" /\ ret[w].ok)) =>
              \A r \in OwnEdges(w) :
                  \E j \in 1..Len(data[w].edges) :
                      /\ r.relationship = data[w].edges[j].relationship
                      /\ IsLastRow(w, data[w].edges[j].source, r.source_node_id)
                      /\ IsLastRow(w, data[w].edges[j].target, r.target_node_id)
        /\ pc[w] = "commit" =>
              /\ Cardinality(OwnNodes(w)) = Len(data[w].nodes)
              /\ Cardinality(OwnEdges(w)) = Len(data[w].edges)
        /\ (pc[w] = "returned" /\ ~ret[w].ok /\ data[w] # NoGraph /\ ValidGraph(data[w])) =>
              ret[w].err \in StoreErrors

\* A call has stored a graph with two nodes named "a" and an edge from "a"
\* to "a": both node rows are there and the edge row points at the later.
C14_Witness ==
    \E w \in Workers :
        /\ Settled(w) /\ ret[w].ok
        /\ HasDuplicate(data[w])
        /\ Cardinality(NodesOf(doc[w])) = 2
        /\ \E r \in EdgesOf(doc[w]), q \in NodesOf(doc[w]) :
              /\ r.source_node_id = q.id /\ r.target_node_id = q.id
              /\ q.label = "Company"
              /\ \E o \in NodesOf(doc[w]) : o.id < q.id /\ o.name = q.name

\* C15 -- Edge endpoints resolve only against the nodes the current call
\* inserted: node_map is empty when store_graph_data starts and holds, when
\* the edge loop starts, exactly the names of the call's own graph with the
\* identifiers of rows the call wrote; an edge naming a node of a stored
\* graph but not of the call's graph makes the call fail; and no edge row
\* references a node row written by another call.
C15_OwnNodesOnly ==
    /\ \A w \in Workers :
          /\ pc[w] \in {"begin", "delete", "delete_wait", "nodes"} =>
                node_map[w] = EmptyMap
          /\ pc[w] = "edges" =>
                /\ DOMAIN node_map[w] = NodeNames(data[w])
                /\ \A n \in DOMAIN node_map[w] :
                      \E q \in OwnNodes(w) : q.id = node_map[w][n] /\ q.name = n
          /\ (pc[w] \in {"commit", "returned"} /\ data[w] # NoGraph
                /\ HasDangling(data[w])) =>
                /\ pc[w] = "returned" /\ ~ret[w].ok
                /\ ret[w].err \in StoreErrors \cup { MissingNodeError(data[w]) }
    /\ \A r \in document_edges : \A q \in document_nodes :
          q.id \in {r.source_node_id, r.target_node_id} => q.xmin = r.xmin

\* Document d1 has a stored node named "b"; a call for d1 whose graph has
\* an edge to "b" but no node "b" has failed on that edge.
C15_Witness ==
    \E w \in Workers :
        /\ pc[w] = "returned" /\ doc[w] = "d1" /\ alone[w]
        /\ "b" \notin NodeNames(data[w])
        /\ ret[w] = Err(<< "Target node", "b", "not found" >>)
        /\ \E q \in NodesOf("d1") : q.name = "b" /\ q.xmin # xid[w]

\* C16 -- Referential integrity of the committed state: in every reachable
\* state, after any successful and failed calls on any documents, the source
\* and the target of every edge row a reader sees are identifiers of node
\* rows a reader sees, of the same document as the edge row; the delete
\* step leaves no edge row of the prior graph behind.
C16_ReferentialIntegrity ==
    \A r \in document_edges :
        Live(r) =>
            /\ \E q \in NodesOf(r.document_id) : q.id = r.source_node_id
            /\ \E q \in NodesOf(r.document_id) : q.id = r.target_node_id

\* The graph stored for d1 has been replaced by one call, another call has
\* failed inside its transaction, and d1 has edge rows, none of the prior
\* graph.
C16_Witness ==
    \E w, v \in Workers :
        /\ Settled(w) /\ ret[w].ok /\ doc[w] = "d1" /\ xid[w] > 1
        /\ xstatus[1] = "committed"
        /\ EdgesOf("d1") # {}
        /\ \A r \in document_edges \cup document_nodes : r.xmin # 1
        /\ pc[v] = "returned" /\ ~ret[v].ok /\ xid[v] > 1

\* C17 -- Bounded excerpt: the excerpt placed in the prompt is exactly the
\* first min(length, 4000) characters of the content, in order; a content
\* longer than the cap is cut without an error, one at or below the cap is
\* placed whole.
Excerpt == Tail(prompt)
C17_BoundedExcerpt ==
    /\ ExcerptCap = 4000
    /\ stage = "prompt" => ENABLED BuildPrompt
    /\ stage = "sent" =>
          /\ Head(prompt) = PromptHeader
          /\ Len(Excerpt) = (IF Len(chars) <= 4000 THEN Len(chars) ELSE 4000)
          /\ \A i \in 1..Len(Excerpt) : Excerpt[i] = chars[i]
          /\ Len(chars) <= 4000 => Excerpt = chars

\* A prompt has been built from a content two characters longer than the
\* cap.
C17_Witness ==
    /\ stage = "sent"
    /\ Len(chars) = 4002 /\ Len(Excerpt) = 4000 /\ Excerpt[4000] = chars[4000]

\* C18 -- The fallback graph is valid: each of its edges names as source and
\* as target a node of the graph and its node names are pairwise distinct;
\* so without a credential a call on a document that has content never
\* fails on a dangling reference, and when the database does not fail it
\* leaves exactly two node rows and one edge row for the document.
C18_FallbackValid ==
    ~api_key =>
        \A w \in Workers :
            LET g == mock_llm_response(content[w]) IN
            /\ ValidGraph(g) /\ ~HasDuplicate(g)
            /\ Len(g.nodes) = 2 /\ Len(g.edges) = 1
            /\ (data[w] # NoGraph) => data[w] = g
            /\ (pc[w] = "returned" /\ ~ret[w].ok) =>
                  ret[w].err \in StoreErrors \cup FetchErrors
                                 \cup { << "Document not found" >>, << "No content to analyze" >> }
            /\ (pc[w] = "returned" /\ data[w] # NoGraph /\ ~ret[w].ok) =>
                  ret[w].err \in StoreErrors
            /\ (Settled(w) /\ ret[w].ok) =>
                  /\ Cardinality(NodesOf(doc[w])) = 2
                  /\ Cardinality(EdgesOf(doc[w])) = 1
                  /\ \A r \in EdgesOf(doc[w]) :
                        \E p, q \in NodesOf(doc[w]) :
                            /\ p.id = r.source_node_id /\ p.name = "John Doe"
                            /\ q.id = r.target_node_id /\ q.name = "Readur Corp"

\* Without a credential a call on d1, which had a stored graph, has
\* returned the fallback graph and d1 holds its two nodes and its edge.
C18_Witness ==
    \E w \in Workers :
        /\ ~api_key /\ Settled(w) /\ ret[w].ok /\ doc[w] = "d1"
        /\ xstatus[1] = "committed" /\ xid[w] > 1
        /\ { r.name : r \in NodesOf("d1") } = {"John Doe", "Readur Corp"}
        /\ Cardinality(EdgesOf("d1")) = 1

====
